---- MODULE Spec2Model ----
(***************************************************************************)
(* Short-link lifecycle of Shorten-URLs-Backend: the link controller       *)
(* (src/src/controllers/link.controller.ts), the admin link controller,    *)
(* the Link collection with its unique and TTL indexes, and the Express    *)
(* error handler.  Every `await` on the store is one atomic step of a      *)
(* request; requests of different slots interleave between their steps.    *)
(*                                                                         *)
(* Text (URLs, short codes) is modelled as sequences of one-character      *)
(* strings so that trimming, case folding, URL parsing and regular-        *)
(* expression matching are computed, not assumed.  Times are milliseconds. *)
(***************************************************************************)
EXTENDS Integers, Sequences, FiniteSets, TLC

(***************************************************************************)
(* Characters                                                              *)
(***************************************************************************)
UpperChars == <<"A","B","C","D","E","F","G","H","I","J","K","L","M",
                "N","O","P","Q","R","S","T","U","V","W","X","Y","Z">>

LowerChars == <<"a","b","c","d","e","f","g","h","i","j","k","l","m",
                "n","o","p","q","r","s","t","u","v","w","x","y","z">>

DigitChars == <<"0","1","2","3","4","5","6","7","8","9">>

Range(f) == { f[i] : i \in DOMAIN f }

UpperSet == Range(UpperChars)
LowerSet == Range(LowerChars)
DigitSet == Range(DigitChars)

LowerOf == [c \in UpperSet |->
              LowerChars[CHOOSE i \in DOMAIN UpperChars : UpperChars[i] = c]]

\* String.prototype.toLowerCase on one character
toLowerCaseChar(c) == IF c \in UpperSet THEN LowerOf[c] ELSE c

\* String.prototype.toLowerCase
toLowerCase(s) == [i \in 1..Len(s) |-> toLowerCaseChar(s[i])]

\* index of the first character of s that is in set, Len(s)+1 when there is none
IndexOfAny(s, set) ==
  IF \E i \in 1..Len(s) : s[i] \in set
    THEN CHOOSE i \in 1..Len(s) : s[i] \in set /\ \A j \in 1..(i-1) : s[j] \notin set
    ELSE Len(s) + 1

\* String.prototype.trim (white space is the blank here)
trim(s) ==
  IF \A i \in 1..Len(s) : s[i] = " "
    THEN <<>>
    ELSE LET first == CHOOSE i \in 1..Len(s) :
                        s[i] # " " /\ \A j \in 1..(i-1) : s[j] = " "
             last  == CHOOSE i \in 1..Len(s) :
                        s[i] # " " /\ \A j \in (i+1)..Len(s) : s[j] = " "
         IN  SubSeq(s, first, last)

StartsWith(s, p) == Len(s) >= Len(p) /\ SubSeq(s, 1, Len(p)) = p

(***************************************************************************)
(* URL normalizer: link.controller.ts normalizeUrl                         *)
(***************************************************************************)
HttpPrefix  == <<"h","t","t","p",":","/","/">>
HttpsPrefix == <<"h","t","t","p","s",":","/","/">>

\* /^https?:\/\//i.test(u)
HasHttpScheme(u) ==
  \/ StartsWith(toLowerCase(u), HttpPrefix)
  \/ StartsWith(toLowerCase(u), HttpsPrefix)

HostChars == UpperSet \cup LowerSet \cup DigitSet \cup {".", "-"}

\* new URL(u) for u = scheme "://" authority [path] ["?" query] ["#" fragment]
\* with scheme http or https: the parts, or ok = FALSE where the parser throws
\* (empty host, forbidden host code point, non-numeric port).
ParseUrl(u) ==
  LET lower    == toLowerCase(u)
      scheme   == IF StartsWith(lower, HttpsPrefix) THEN <<"h","t","t","p","s">>
                                                   ELSE <<"h","t","t","p">>
      rest     == SubSeq(u, Len(scheme) + 4, Len(u))
      authEnd  == IndexOfAny(rest, {"/", "?", "#"})
      auth     == SubSeq(rest, 1, authEnd - 1)
      colon    == IndexOfAny(auth, {":"})
      host     == SubSeq(auth, 1, colon - 1)
      port     == SubSeq(auth, colon + 1, Len(auth))
      afterA   == SubSeq(rest, authEnd, Len(rest))
      pathEnd  == IndexOfAny(afterA, {"?", "#"})
      path     == SubSeq(afterA, 1, pathEnd - 1)
      afterP   == SubSeq(afterA, pathEnd, Len(afterA))
      hashAt   == IndexOfAny(afterP, {"#"})
      query    == SubSeq(afterP, 1, hashAt - 1)
      hash     == SubSeq(afterP, hashAt, Len(afterP))
      defPort  == IF scheme = <<"h","t","t","p","s">> THEN <<"4","4","3">> ELSE <<"8","0">>
  IN  [ ok     |-> /\ Len(host) > 0
                   /\ \A i \in 1..Len(host) : host[i] \in HostChars
                   /\ \A i \in 1..Len(port) : port[i] \in DigitSet,
        scheme |-> scheme,
        host   |-> toLowerCase(host),
        port   |-> IF port = defPort THEN <<>> ELSE port,
        path   |-> IF path = <<>> THEN <<"/">> ELSE path,
        query  |-> query,
        hash   |-> hash ]

\* url.toString() after url.hash = ''
UrlToString(p) ==
  p.scheme \o <<":","/","/">> \o p.host
    \o (IF p.port = <<>> THEN <<>> ELSE <<":">> \o p.port)
    \o p.path \o p.query

normalizeUrl(raw) ==
  LET t == trim(raw)
      u == IF HasHttpScheme(t) THEN t ELSE HttpsPrefix \o t
      p == ParseUrl(u)
  IN  IF p.ok THEN UrlToString(p) ELSE u

(***************************************************************************)
(* new RegExp(`^${normalizedUrl}$`, 'i') as the store evaluates it: the    *)
(* text is a pattern, so "." matches any character, "[ab]" matches one     *)
(* character of the class and a following "?" makes the atom optional;     *)
(* every other character of the modelled alphabet is a literal.            *)
(***************************************************************************)
RegexCharMatch(p, c) == p = "." \/ toLowerCaseChar(p) = toLowerCaseChar(c)

\* the constructor throws a SyntaxError for a class that is never closed
RegexValid(pat) ==
  \A i \in 1..Len(pat) :
    pat[i] = "[" => \E j \in (i+1)..Len(pat) : pat[j] = "]"

\* length of the first atom of a non-empty pattern: a class up to its "]", or
\* one character
AtomLen(pat) ==
  IF pat[1] = "[" /\ \E j \in 2..Len(pat) : pat[j] = "]"
    THEN CHOOSE j \in 2..Len(pat) :
           pat[j] = "]" /\ \A k \in 2..(j-1) : pat[k] # "]"
    ELSE 1

\* the first atom of the pattern matches the character c
AtomMatch(pat, c) ==
  IF AtomLen(pat) > 1
    THEN \E k \in 2..(AtomLen(pat) - 1) :
           toLowerCaseChar(pat[k]) = toLowerCaseChar(c)
    ELSE RegexCharMatch(pat[1], c)

RECURSIVE RegexMatchesWhole(_, _)
RegexMatchesWhole(pat, s) ==
  IF pat = <<>> THEN s = <<>>
  ELSE LET n    == AtomLen(pat)
           opt  == Len(pat) > n /\ pat[n + 1] = "?"
           rest == SubSeq(pat, n + (IF opt THEN 2 ELSE 1), Len(pat))
       IN  \/ opt /\ RegexMatchesWhole(rest, s)
           \/ /\ s # <<>>
              /\ AtomMatch(pat, s[1])
              /\ RegexMatchesWhole(rest, Tail(s))

(***************************************************************************)
(* Code generator and alias validation                                     *)
(***************************************************************************)
\* const reserved = new Set([...])
ReservedWords ==
  { <<"a","p","i">>, <<"r">>, <<"r","e","d","i","r","e","c","t">>,
    <<"a","d","m","i","n">>, <<"l","o","g","i","n">>,
    <<"s","i","g","n","u","p">>, <<"h","e","a","l","t","h">> }

\* mutant: the alias compared as written, without toLowerCase
isReserved_CaseSensitive(alias) == alias \in ReservedWords

isReserved(alias) == toLowerCase(alias) \in ReservedWords

AliasChars == UpperSet \cup LowerSet \cup DigitSet \cup {"-", "_"}

AliasMinLen == 3
AliasMaxLen == 30

\* customAlias: z.string().regex(/^[a-zA-Z0-9-_]{3,30}$/).optional()
AliasFormatOk(alias) ==
  /\ Len(alias) >= AliasMinLen
  /\ Len(alias) <= AliasMaxLen
  /\ \A i \in 1..Len(alias) : alias[i] \in AliasChars

OriginalUrlMinLen == 4

\* createLinkSchema.safeParse(req.body).success
\* (z.string().url().or(z.string().min(4)): any text of four characters passes)
SchemaOk(originalUrl, hasAlias, customAlias) ==
  /\ Len(originalUrl) >= OriginalUrlMinLen
  /\ hasAlias => AliasFormatOk(customAlias)

\* randomCode(): Math.random().toString(36).slice(2, 8): the first six digits
\* after "0." of the draw in base 36 (any six are possible), fewer when the
\* draw has a shorter expansion (0.75 is "0.r").
RandomCodes ==
  { <<"r">>, <<"k","3","x","9","q","z">> }

(***************************************************************************)
(* Link model: src/src/models/Link.ts                                      *)
(***************************************************************************)
\* validator.isURL(v, {protocols: ['http','https'], require_tld, require_protocol})
\* on the modelled alphabet: an http(s) URL whose host ends in a label of two
\* or more letters after a dot, without blanks.
IsAlpha(c) == c \in UpperSet \cup LowerSet

ValidatorIsURL(v) ==
  /\ HasHttpScheme(v)
  /\ \A i \in 1..Len(v) : v[i] # " "
  /\ LET p   == ParseUrl(v)
         dot == IF \E i \in 1..Len(p.host) : p.host[i] = "."
                  THEN CHOOSE i \in 1..Len(p.host) :
                         p.host[i] = "." /\ \A j \in (i+1)..Len(p.host) : p.host[j] # "."
                  ELSE 0
     IN  /\ p.ok
         /\ dot > 0
         /\ Len(p.host) - dot >= 2
         /\ \A j \in (dot+1)..Len(p.host) : IsAlpha(p.host[j])

\* one Link document as the store holds it
LinkDoc(id, originalUrl, shortCode, createdBy, createdAt, expiresAt) ==
  [ _id         |-> id,
    originalUrl |-> originalUrl,
    shortCode   |-> shortCode,
    createdBy   |-> createdBy,
    clicks      |-> 0,
    createdAt   |-> createdAt,
    expiresAt   |-> expiresAt,
    isActive    |-> TRUE ]

(***************************************************************************)
(* Program constants (milliseconds, counts, HTTP statuses)                 *)
(***************************************************************************)
FIVE_DAYS_MS  == 5 * 24 * 60 * 60 * 1000
QuotaWindowMs == 60 * 60 * 1000
QuotaLimit    == 5

(***************************************************************************)
(* Bounds of the model                                                     *)
(***************************************************************************)
NumSlots         == 2   \* requests in flight at once
MaxRequests      == 2   \* requests started in a run of Spec
MaxResolves      == 3   \* requests started in a run of SpecResolve
MaxClickRequests == 4   \* requests started in a run of SpecClicks
MaxQuotaRequests == 7   \* requests started in a run of SpecQuota
MaxGenRequests   == 3   \* requests started in a run of SpecGenerate
MaxOwnerRequests == 4   \* requests started in a run of SpecOwner
MaxDedupRequests == 3   \* requests started in a run of SpecDedup
MaxTicks         == 2   \* clock advances in a run
MaxFrameRequests == 4   \* requests started in a run of SpecFrame
MaxReadRequests  == 3   \* requests started in a run of SpecRead
MaxBurstRequests == 6   \* requests started in a run of SpecBurst

Slots  == 1..NumSlots
NoUser == "none"              \* no authenticated caller: req.user?.sub undefined
Users  == {"u1", "u2"}

(***************************************************************************)
(* State                                                                   *)
(***************************************************************************)
VARIABLES
  store,      \* the Link collection: a set of documents
  nextId,     \* the next _id the store hands out
  now,        \* Date.now()
  ticks,      \* clock advances so far
  req,        \* per slot: the request it runs, its position and its response
  nreq,       \* requests started so far; the last request id
  redirects,  \* history: per _id, the redirects served for it
  created,    \* history: per _id, who created the document and its createdAt
  rejectedAt, \* history: per user, the time of the last quota rejection, -1 if none
  swept       \* history: the TTL monitor has removed a document

vars == <<store, nextId, now, ticks, req, nreq, redirects, created, rejectedAt, swept>>

IdleReq ==
  [ op            |-> "none",
    pc            |-> "idle",
    userId        |-> NoUser,
    role          |-> "none",   \* req.user.role, where the route reads it
    originalUrl   |-> <<>>,
    hasAlias      |-> FALSE,
    customAlias   |-> <<>>,
    param         |-> <<>>,     \* req.params.shortCode
    startedAt     |-> 0,
    normalizedUrl |-> <<>>,
    shortCode     |-> <<>>,     \* the code chosen for the new link
    createdAt     |-> 0,
    expiresAt     |-> 0,
    link          |-> {},       \* the document findOne returned, as modified locally
    seen          |-> {},       \* history: the documents stored under param at arrival
    status        |-> 0,        \* HTTP status of the response
    error         |-> "",       \* error / message text of the response
    resShortCode  |-> <<>>,     \* shortCode of the response body
    resUrl        |-> <<>>,     \* originalUrl of the response body or redirect target
    createdId     |-> 0,        \* history: _id of the document this request inserted
    admitted      |-> FALSE,    \* history: enforceCreateQuota returned
    dupAtStart    |-> {},       \* history: _ids of the caller's links for this URL at arrival
    overlap       |-> {} ]      \* history: slots whose request was in flight at arrival

Init ==
  /\ store = {}
  /\ nextId = 1
  /\ now = 0
  /\ ticks = 0
  /\ req = [s \in Slots |-> IdleReq]
  /\ nreq = 0
  /\ redirects = <<>>
  /\ created = <<>>
  /\ rejectedAt = [u \in Users |-> -1]
  /\ swept = FALSE

Free(s)     == req[s].pc \in {"idle", "done"}
InFlight(s) == ~Free(s)

\* an arriving request takes the first free slot (slots are interchangeable)
Accepts(s) == Free(s) /\ \A t \in Slots : t < s => InFlight(t)

\* a fresh request record for slot s
NewReq(s, op) ==
  [ IdleReq EXCEPT !.op = op, !.startedAt = now,
                   !.overlap = { t \in Slots : t # s /\ InFlight(t) } ]

\* slot s runs request r from now on: the request it held before is forgotten
Arrive(s, r) ==
  [ t \in Slots |-> IF t = s THEN r
                              ELSE [ req[t] EXCEPT !.overlap = @ \ {s} ] ]

\* res.status(status).json(...) / res.redirect(...): the request ends
Respond(r, status, error) ==
  [ r EXCEPT !.pc = "done", !.status = status, !.error = error ]

\* errorHandler(err): status = err?.status || 500, body { error: err.message }
errorHandler(r, errStatus, errMessage) ==
  Respond(r, IF errStatus # 0 THEN errStatus ELSE 500, errMessage)

(***************************************************************************)
(* Store queries                                                           *)
(***************************************************************************)
\* mutant: $gte in place of $gt
RecentCount_Inclusive(userId, since) ==
  Cardinality({ l \in store : l.createdBy = userId /\ l.createdAt >= since })

\* Link.countDocuments({ createdBy: userId, createdAt: { $gt: since } })
RecentCount(userId, since) ==
  Cardinality({ l \in store : l.createdBy = userId /\ l.createdAt > since })

\* Link.findOne({ shortCode }) / Link.exists({ shortCode })
ByShortCode(code) == { l \in store : l.shortCode = code }

\* mutant: the lookup also asks for isActive: true
ExistingFor_ActiveOnly(normalizedUrl, userId) ==
  { l \in store : /\ RegexMatchesWhole(normalizedUrl, l.originalUrl)
                  /\ l.createdBy = userId
                  /\ l.isActive }

\* mutant: the lookup without its createdBy filter
ExistingFor_AnyCreator(normalizedUrl, userId) ==
  { l \in store : RegexMatchesWhole(normalizedUrl, l.originalUrl) }

\* Link.findOne({ originalUrl: new RegExp(`^${normalizedUrl}$`, 'i'), createdBy: userId })
ExistingFor(normalizedUrl, userId) ==
  { l \in store : RegexMatchesWhole(normalizedUrl, l.originalUrl) /\ l.createdBy = userId }

\* mutant: the delete query without its createdBy filter
OwnedByShortCode_AnyOwner(code, userId) == ByShortCode(code)

\* Link.findOneAndDelete({ shortCode, createdBy: userId }): the documents it matches
OwnedByShortCode(code, userId) ==
  { l \in store : l.shortCode = code /\ l.createdBy = userId }

\* mutant: the isActive filter left out of the query
ActiveByShortCode_AnyState(code) == ByShortCode(code)

\* Link.findOne({ shortCode, isActive: true })
ActiveByShortCode(code) == { l \in store : l.shortCode = code /\ l.isActive }

\* mutant: the expiry test left out
IsExpired_Missing(l, at) == FALSE

\* link.expiresAt && link.expiresAt < new Date()
IsExpired(l, at) == l.expiresAt < at

\* mutant: shortCode without its unique index
UniqueIndexAdmits_NoIndex(code) == TRUE

\* the unique index on shortCode admits the insert
UniqueIndexAdmits(code) == ByShortCode(code) = {}

(***************************************************************************)
(* createShortLink (link.controller.ts 121-195)                            *)
(***************************************************************************)
\* Arrival to the end of enforceCreateQuota: schema, caller, quota count,
\* normalisation and the reserved-word test.
createShortLink_Admit(s, userId, originalUrl, hasAlias, customAlias) ==
  /\ Accepts(s)
  /\ LET normalizedUrl == normalizeUrl(originalUrl)
         r0 == [ NewReq(s, "create") EXCEPT
                   !.userId = userId, !.originalUrl = originalUrl,
                   !.hasAlias = hasAlias, !.customAlias = customAlias,
                   !.dupAtStart =
                     { l._id : l \in { m \in store :
                          /\ m.createdBy = userId
                          /\ m.originalUrl = normalizedUrl } } ]
         oneHourAgo == now - QuotaWindowMs
     IN  IF ~SchemaOk(originalUrl, hasAlias, customAlias)
           THEN /\ req' = Arrive(s, Respond(r0, 400, "Invalid request body"))
                /\ UNCHANGED rejectedAt
         ELSE IF userId = NoUser
           THEN /\ req' = Arrive(s, Respond(r0, 401, "Unauthorized"))
                /\ UNCHANGED rejectedAt
         ELSE IF RecentCount(userId, oneHourAgo) >= QuotaLimit
           THEN /\ req' = Arrive(s, errorHandler(r0, 429, "Quota exceeded"))
                /\ rejectedAt' = [rejectedAt EXCEPT ![userId] = now]
         ELSE LET r1 == [r0 EXCEPT !.admitted = TRUE,
                                   !.normalizedUrl = normalizedUrl]
              IN  /\ UNCHANGED rejectedAt
                  /\ IF hasAlias /\ isReserved(customAlias)
                       THEN req' = Arrive(s, Respond(r1, 400, "Custom alias is reserved"))
                     ELSE IF hasAlias
                       THEN req' = Arrive(s, [r1 EXCEPT !.pc = "alias"])
                     ELSE req' = Arrive(s, [r1 EXCEPT !.pc = "existing"])
  /\ nreq' = nreq + 1
  /\ UNCHANGED <<store, nextId, now, ticks, redirects, created, swept>>

\* const existingAlias = await Link.findOne({ shortCode: customAlias })
createShortLink_CheckAlias(s) ==
  /\ req[s].pc = "alias"
  /\ IF ByShortCode(req[s].customAlias) # {}
       THEN req' = [req EXCEPT ![s] = Respond(@, 400, "Custom alias already exists")]
       ELSE req' = [req EXCEPT ![s].pc = "existing"]
  /\ UNCHANGED <<store, nextId, now, ticks, nreq, redirects, created, rejectedAt, swept>>

\* mutant: a suffix added to the alias
AliasCode_Suffixed(customAlias) == Append(customAlias, "1")

\* const shortCode = customAlias ?? ...: the alias itself is the code
AliasCode(customAlias) == customAlias

\* const existing = await Link.findOne({ originalUrl: /^...$/i, createdBy })
\* and, when there is none, the choice of the code and of expiresAt
createShortLink_FindExisting(s) ==
  /\ req[s].pc = "existing"
  /\ LET found == ExistingFor(req[s].normalizedUrl, req[s].userId)
     IN  IF ~RegexValid(req[s].normalizedUrl)
           THEN req' = [req EXCEPT ![s] = errorHandler(@, 0, "Invalid regular expression")]
         ELSE IF found # {}
           THEN \E l \in found :
                  req' = [req EXCEPT ![s] =
                    [ Respond(@, 200, "Existing short link found for this URL")
                        EXCEPT !.resShortCode = l.shortCode, !.resUrl = l.originalUrl ]]
         ELSE IF req[s].hasAlias
           THEN req' = [req EXCEPT ![s] =
                  [@ EXCEPT !.pc = "insert", !.shortCode = AliasCode(req[s].customAlias),
                            !.createdAt = now, !.expiresAt = now + FIVE_DAYS_MS]]
         ELSE \E code \in RandomCodes :
                req' = [req EXCEPT ![s] = [@ EXCEPT !.pc = "exists", !.shortCode = code]]
  /\ UNCHANGED <<store, nextId, now, ticks, nreq, redirects, created, rejectedAt, swept>>

\* generateUniqueShortCode: await Link.exists({ shortCode: code }), then either
\* return the code or draw another one
generateUniqueShortCode(s) ==
  /\ req[s].pc = "exists"
  /\ IF ByShortCode(req[s].shortCode) = {}
       THEN req' = [req EXCEPT ![s] =
              [@ EXCEPT !.pc = "insert",
                        !.createdAt = now, !.expiresAt = now + FIVE_DAYS_MS]]
       ELSE \E code \in RandomCodes :
              req' = [req EXCEPT ![s].shortCode = code]
  /\ UNCHANGED <<store, nextId, now, ticks, nreq, redirects, created, rejectedAt, swept>>

\* await Link.create({...}): schema validation, then the insert under the
\* unique index; a rejection is thrown and reaches the error handler
createShortLink_Insert(s) ==
  /\ req[s].pc = "insert"
  /\ IF ~ValidatorIsURL(req[s].normalizedUrl)
       THEN /\ req' = [req EXCEPT ![s] = errorHandler(@, 0, "Link validation failed")]
            /\ UNCHANGED <<store, nextId, redirects, created>>
     ELSE IF ~UniqueIndexAdmits(req[s].shortCode)
       THEN /\ req' = [req EXCEPT ![s] = errorHandler(@, 0, "E11000 duplicate key error")]
            /\ UNCHANGED <<store, nextId, redirects, created>>
     ELSE /\ store' = store \cup
                { LinkDoc(nextId, req[s].normalizedUrl, req[s].shortCode,
                          req[s].userId, req[s].createdAt, req[s].expiresAt) }
          /\ nextId' = nextId + 1
          /\ redirects' = Append(redirects, 0)
          /\ created' = Append(created, [ createdBy |-> req[s].userId,
                                          createdAt |-> req[s].createdAt ])
          /\ req' = [req EXCEPT ![s] =
               [ Respond(@, 201, "") EXCEPT !.resShortCode = req[s].shortCode,
                                            !.resUrl = req[s].normalizedUrl,
                                            !.createdId = nextId ]]
  /\ UNCHANGED <<now, ticks, nreq, rejectedAt, swept>>

(***************************************************************************)
(* redirectToOriginalUrl (link.controller.ts 197-214; the same steps are   *)
(* in routes/links.ts 116-161 and app.ts 273-312)                          *)
(***************************************************************************)
\* const link = await Link.findOne({ shortCode, isActive: true }), the expiry
\* test, and link.clicks += 1 on the local copy
redirectToOriginalUrl_Find(s, shortCode) ==
  /\ Accepts(s)
  /\ LET r0    == [ NewReq(s, "resolve") EXCEPT !.param = shortCode,
                                                !.seen = ByShortCode(shortCode) ]
         found == ActiveByShortCode(shortCode)
     IN  IF found = {}
           THEN req' = Arrive(s, Respond(r0, 404, "Link not found"))
           ELSE \E l \in found :
                  IF IsExpired(l, now)
                    THEN req' = Arrive(s, [ Respond(r0, 410, "This short URL has expired")
                               EXCEPT !.link = {l} ])
                    ELSE req' = Arrive(s, [ r0 EXCEPT !.pc = "save",
                                       !.link = { [l EXCEPT !.clicks = l.clicks + 1] } ])
  /\ nreq' = nreq + 1
  /\ UNCHANGED <<store, nextId, now, ticks, redirects, created, rejectedAt, swept>>

\* mutant: save() writes the whole document as it was read
SaveClicks_WholeDocument(l) ==
  { IF m._id = l._id THEN l ELSE m : m \in store }

\* Document.save() of a document whose only modified path is clicks:
\* updateOne({ _id }, { $set: { clicks } })
SaveClicks(l) ==
  { IF m._id = l._id THEN [m EXCEPT !.clicks = l.clicks] ELSE m : m \in store }

\* mutant: a save that matches no document goes unnoticed
SaveRejected_Never(l) == FALSE

\* save() rejects with DocumentNotFoundError when its update matches no document
SaveRejected(l) == ~ \E m \in store : m._id = l._id

\* await link.save(); res.redirect(link.originalUrl).  A rejected save is
\* caught by the handler and passed to the error handler.
redirectToOriginalUrl_Save(s) ==
  /\ req[s].pc = "save"
  /\ \E l \in req[s].link :
       IF ~SaveRejected(l)
         THEN /\ store' = SaveClicks(l)
              /\ redirects' = [redirects EXCEPT ![l._id] = @ + 1]
              /\ req' = [req EXCEPT ![s] =
                   [ Respond(@, 302, "") EXCEPT !.resUrl = l.originalUrl ]]
         ELSE /\ req' = [req EXCEPT ![s] = errorHandler(@, 0, "No document found for query")]
              /\ UNCHANGED <<store, redirects>>
  /\ UNCHANGED <<nextId, now, ticks, nreq, created, rejectedAt, swept>>

(***************************************************************************)
(* deleteLink (link.controller.ts 286-299)                                 *)
(***************************************************************************)
\* Link.findOneAndDelete({ shortCode, createdBy: userId })
deleteLink(s, userId, shortCode) ==
  /\ Accepts(s)
  /\ LET r0    == [ NewReq(s, "delete") EXCEPT !.userId = userId, !.param = shortCode,
                                               !.seen = ByShortCode(shortCode) ]
         found == OwnedByShortCode(shortCode, userId)
     IN  IF userId = NoUser
           THEN /\ req' = Arrive(s, Respond(r0, 401, "Unauthorized"))
                /\ UNCHANGED store
         ELSE IF found = {}
           THEN /\ req' = Arrive(s, Respond(r0, 404, "Link not found"))
                /\ UNCHANGED store
         ELSE \E l \in found :
                /\ store' = store \ {l}
                /\ req' = Arrive(s, [ Respond(r0, 200, "Link deleted successfully") EXCEPT !.link = {l} ])
  /\ nreq' = nreq + 1
  /\ UNCHANGED <<nextId, now, ticks, redirects, created, rejectedAt, swept>>

(***************************************************************************)
(* Read endpoints (link.controller.ts 216-284, 302-326)                    *)
(***************************************************************************)
\* getLinkInfo: Link.findOne({ shortCode }), no test of isActive or expiresAt
InfoVisible(l, at) == TRUE

\* GET /:shortCode/info
getLinkInfo(s, shortCode) ==
  /\ Accepts(s)
  /\ LET r0    == [ NewReq(s, "info") EXCEPT !.param = shortCode,
                                             !.seen = ByShortCode(shortCode) ]
         found == { l \in ByShortCode(shortCode) : InfoVisible(l, now) }
     IN  IF found = {}
           THEN req' = Arrive(s, Respond(r0, 404, "Short URL not found"))
           ELSE \E l \in found :
                  req' = Arrive(s, [ Respond(r0, 200, "") EXCEPT
                           !.link = {l}, !.resUrl = l.originalUrl,
                           !.resShortCode = l.shortCode ])
  /\ nreq' = nreq + 1
  /\ UNCHANGED <<store, nextId, now, ticks, redirects, created, rejectedAt, swept>>

\* GET /:shortCode/analytics: Link.findOne({ shortCode, createdBy: userId })
getLinkAnalytics(s, userId, shortCode) ==
  /\ Accepts(s)
  /\ LET r0    == [ NewReq(s, "analytics") EXCEPT !.userId = userId, !.param = shortCode,
                                                  !.seen = ByShortCode(shortCode) ]
         found == OwnedByShortCode(shortCode, userId)
     IN  IF userId = NoUser
           THEN req' = Arrive(s, Respond(r0, 401, "Unauthorized"))
         ELSE IF found = {}
           THEN req' = Arrive(s, Respond(r0, 404, "Link not found"))
         ELSE \E l \in found :
                req' = Arrive(s, [ Respond(r0, 200, "") EXCEPT
                         !.link = {l}, !.resUrl = l.originalUrl,
                         !.resShortCode = l.shortCode ])
  /\ nreq' = nreq + 1
  /\ UNCHANGED <<store, nextId, now, ticks, redirects, created, rejectedAt, swept>>

\* GET /my: Link.find({ createdBy: userId }), first page (the model's stores
\* are smaller than a page)
getUserLinks(s, userId) ==
  /\ Accepts(s)
  /\ LET r0 == [ NewReq(s, "list") EXCEPT !.userId = userId ]
     IN  IF userId = NoUser
           THEN req' = Arrive(s, Respond(r0, 401, "Unauthorized"))
           ELSE req' = Arrive(s, [ Respond(r0, 200, "") EXCEPT
                         !.link = { l \in store : l.createdBy = userId } ])
  /\ nreq' = nreq + 1
  /\ UNCHANGED <<store, nextId, now, ticks, redirects, created, rejectedAt, swept>>

\* GET /delay/:shortCode: Link.findOne({ shortCode, isActive: true }), no test
\* of expiresAt; the handler then awaits fetchPageMetadata
getLinkForDelay_Find(s, shortCode) ==
  /\ Accepts(s)
  /\ LET r0    == [ NewReq(s, "delay") EXCEPT !.param = shortCode,
                                              !.seen = ByShortCode(shortCode) ]
         found == ActiveByShortCode(shortCode)
     IN  IF found = {}
           THEN req' = Arrive(s, Respond(r0, 404, "Link not found"))
           ELSE \E l \in found :
                  req' = Arrive(s, [ r0 EXCEPT !.pc = "metadata", !.link = {l} ])
  /\ nreq' = nreq + 1
  /\ UNCHANGED <<store, nextId, now, ticks, redirects, created, rejectedAt, swept>>

\* fetchPageMetadata returned (it never throws); res.json(result) from the
\* document as it was read
getLinkForDelay_Respond(s) ==
  /\ req[s].pc = "metadata"
  /\ \E l \in req[s].link :
       req' = [req EXCEPT ![s] = [ Respond(@, 200, "") EXCEPT
                 !.resUrl = l.originalUrl, !.resShortCode = l.shortCode ]]
  /\ UNCHANGED <<store, nextId, now, ticks, nreq, redirects, created, rejectedAt, swept>>

(***************************************************************************)
(* Admin link controller (unnamed/part_001), behind requireRole('admin')   *)
(***************************************************************************)
Roles == {"admin", "user"}

\* mutant: the update given as a replacement document, without $set
SetIsActive_Replacement(l, isActive) ==
  [ l EXCEPT !.isActive = isActive, !.clicks = 0, !.originalUrl = <<>>, !.createdAt = 0 ]

\* the update { $set: { isActive } } applied to the document l
SetIsActive(l, isActive) == [ l EXCEPT !.isActive = isActive ]

\* requireRole('admin'), then
\* Link.findOneAndUpdate({ shortCode: idOrCode }, { $set: { isActive } })
setLinkActiveAdmin(s, role, idOrCode, isActive) ==
  /\ Accepts(s)
  /\ LET r0    == [ NewReq(s, "setActive") EXCEPT !.role = role, !.param = idOrCode,
                                                  !.seen = ByShortCode(idOrCode) ]
         found == ByShortCode(idOrCode)
     IN  IF role # "admin"
           THEN /\ req' = Arrive(s, Respond(r0, 403, "Forbidden"))
                /\ UNCHANGED store
         ELSE IF found = {}
           THEN /\ req' = Arrive(s, Respond(r0, 404, "Link not found"))
                /\ UNCHANGED store
         ELSE \E l \in found :
                /\ store' = (store \ {l}) \cup { SetIsActive(l, isActive) }
                /\ req' = Arrive(s, [ Respond(r0, 200, "") EXCEPT !.link = {l} ])
  /\ nreq' = nreq + 1
  /\ UNCHANGED <<nextId, now, ticks, redirects, created, rejectedAt, swept>>

\* requireRole('admin'), then Link.findOneAndDelete({ shortCode: idOrCode })
deleteLinkAdmin(s, role, idOrCode) ==
  /\ Accepts(s)
  /\ LET r0    == [ NewReq(s, "deleteAdmin") EXCEPT !.role = role, !.param = idOrCode,
                                                    !.seen = ByShortCode(idOrCode) ]
         found == ByShortCode(idOrCode)
     IN  IF role # "admin"
           THEN /\ req' = Arrive(s, Respond(r0, 403, "Forbidden"))
                /\ UNCHANGED store
         ELSE IF found = {}
           THEN /\ req' = Arrive(s, Respond(r0, 404, "Link not found"))
                /\ UNCHANGED store
         ELSE \E l \in found :
                /\ store' = store \ {l}
                /\ req' = Arrive(s, [ Respond(r0, 200, "Link deleted") EXCEPT !.link = {l} ])
  /\ nreq' = nreq + 1
  /\ UNCHANGED <<nextId, now, ticks, redirects, created, rejectedAt, swept>>

(***************************************************************************)
(* Time and the TTL index { expiresAt: 1 }, expireAfterSeconds: 0          *)
(***************************************************************************)
Tick(d) ==
  /\ ticks < MaxTicks
  /\ now' = now + d
  /\ ticks' = ticks + 1
  /\ UNCHANGED <<store, nextId, req, nreq, redirects, created, rejectedAt, swept>>

\* the TTL monitor removes a document whose expiresAt has passed
TtlExpire ==
  /\ \E l \in store :
       /\ l.expiresAt < now
       /\ store' = store \ {l}
  /\ swept' = TRUE
  /\ UNCHANGED <<nextId, now, ticks, req, nreq, redirects, created, rejectedAt>>

(***************************************************************************)
(* Workloads: the requests the environment may send                        *)
(***************************************************************************)
NoAlias == <<>>

UrlPlain    == <<"a",".","i","o","/","x">>
UrlShouting == <<" ","H","T","T","P","S",":","/","/","A",".","i","o","/","x","#","f">>
UrlQuery    == <<"a",".","i","o","/","x","?","b">>
CreateUrls  == { UrlPlain, UrlShouting, UrlQuery }

UrlUpperPath == <<"a",".","i","o","/","X">>
UrlBracket   == <<"[","a","b","]",".","i","o","/","x">>
DedupUrls    == { UrlPlain, UrlUpperPath, UrlBracket }

AliasAbc      == <<"a","b","c">>
AliasReserved == <<"A","d","m","i","n">>
AliasBad      == <<"a","b","!">>

\* the steps every started createShortLink request takes on its own
CreateSteps(s) ==
  \/ createShortLink_CheckAlias(s)
  \/ createShortLink_FindExisting(s)
  \/ generateUniqueShortCode(s)
  \/ createShortLink_Insert(s)

\* Spec: creation and deletion by two callers
Next ==
  \E s \in Slots :
    \/ /\ nreq < MaxRequests
       /\ \/ \E u \in Users, url \in CreateUrls :
               \/ createShortLink_Admit(s, u, url, FALSE, NoAlias)
               \/ createShortLink_Admit(s, u, url, TRUE, AliasAbc)
          \/ \E alias \in {AliasReserved, AliasBad} :
               createShortLink_Admit(s, "u1", UrlPlain, TRUE, alias)
          \/ \E u \in Users : deleteLink(s, u, AliasAbc)
    \/ CreateSteps(s)

Spec == Init /\ [][Next]_vars

\* SpecResolve: one link, resolved, deactivated, deleted and expired
NextResolve ==
  \/ \E s \in Slots :
       \/ /\ nreq < MaxResolves
          /\ \/ /\ store = {}
                /\ createShortLink_Admit(s, "u1", UrlPlain, TRUE, AliasAbc)
             \/ redirectToOriginalUrl_Find(s, AliasAbc)
             \/ \E b \in BOOLEAN : setLinkActiveAdmin(s, "admin", AliasAbc, b)
             \/ deleteLinkAdmin(s, "admin", AliasAbc)
       \/ createShortLink_CheckAlias(s)
       \/ createShortLink_FindExisting(s)
       \/ createShortLink_Insert(s)
       \/ redirectToOriginalUrl_Save(s)
  \/ \E d \in {1, FIVE_DAYS_MS} : Tick(d)
  \/ TtlExpire

SpecResolve == Init /\ [][NextResolve]_vars

\* SpecClicks: one link, resolved again and again
NextClicks ==
  \E s \in Slots :
    \/ /\ nreq < MaxClickRequests
       /\ \/ /\ store = {}
             /\ createShortLink_Admit(s, "u1", UrlPlain, TRUE, AliasAbc)
          \/ redirectToOriginalUrl_Find(s, AliasAbc)
    \/ createShortLink_CheckAlias(s)
    \/ createShortLink_FindExisting(s)
    \/ createShortLink_Insert(s)
    \/ redirectToOriginalUrl_Save(s)

SpecClicks == Init /\ [][NextClicks]_vars

\* SpecQuota: one caller creating link after link, the n-th link with its own
\* URL and alias, and deleting its first link, while the quota window passes
QuotaUrl(i)   == <<"a",".","i","o","/", DigitChars[i + 1]>>
QuotaAlias(i) == <<"l","n","k", DigitChars[i + 1]>>

NextQuota ==
  \/ \E s \in Slots :
       \/ /\ nreq < MaxQuotaRequests
          /\ \/ /\ \A t \in Slots : Free(t)
                /\ createShortLink_Admit(s, "u1", QuotaUrl(nextId), TRUE, QuotaAlias(nextId))
             \/ deleteLink(s, "u1", QuotaAlias(1))
       \/ createShortLink_CheckAlias(s)
       \/ createShortLink_FindExisting(s)
       \/ createShortLink_Insert(s)
  \/ \E d \in {1, QuotaWindowMs - 1} : Tick(d)

SpecQuota == Init /\ [][NextQuota]_vars

\* SpecBurst: one caller creating link after link without waiting for the
\* answers, the n-th request with its own URL and alias
NextBurst ==
  \E s \in Slots :
    \/ /\ nreq < MaxBurstRequests
       /\ createShortLink_Admit(s, "u1", QuotaUrl(nreq + 1), TRUE, QuotaAlias(nreq + 1))
    \/ createShortLink_CheckAlias(s)
    \/ createShortLink_FindExisting(s)
    \/ createShortLink_Insert(s)

SpecBurst == Init /\ [][NextBurst]_vars

\* SpecGenerate: links without alias, their codes drawn by the generator.
NextGenerate ==
  \E s \in Slots :
    \/ /\ nreq < MaxGenRequests
       /\ \E u \in Users, url \in {UrlPlain, UrlQuery} :
            createShortLink_Admit(s, u, url, FALSE, NoAlias)
    \/ createShortLink_FindExisting(s)
    \/ generateUniqueShortCode(s)
    \/ createShortLink_Insert(s)

\* The event loop resumes the generator of every request that awaits
\* Link.exists: a started check of a candidate is carried out.
EventLoopRuns ==
  \A s \in Slots : WF_vars(generateUniqueShortCode(s))

SpecGenerate == Init /\ [][NextGenerate]_vars /\ EventLoopRuns

\* SpecOwner: one link of u1, resolved, and deleted or deactivated by its
\* creator, by another caller, by an administrator and by a caller without
\* the admin role
NextOwner ==
  \E s \in Slots :
    \/ /\ nreq < MaxOwnerRequests
       /\ \/ /\ store = {}
             /\ createShortLink_Admit(s, "u1", UrlPlain, TRUE, AliasAbc)
          \/ redirectToOriginalUrl_Find(s, AliasAbc)
          \/ \E u \in Users : deleteLink(s, u, AliasAbc)
          \/ \E role \in Roles, b \in BOOLEAN :
               setLinkActiveAdmin(s, role, AliasAbc, b)
          \/ \E role \in Roles : deleteLinkAdmin(s, role, AliasAbc)
    \/ createShortLink_CheckAlias(s)
    \/ createShortLink_FindExisting(s)
    \/ createShortLink_Insert(s)
    \/ redirectToOriginalUrl_Save(s)

SpecOwner == Init /\ [][NextOwner]_vars

\* SpecDedup: a caller creating links without alias for URLs that the lookup
\* for an existing link may take for one another, a second caller creating a
\* link for one of these URLs, and an administrator deactivating links
NextDedup ==
  \E s \in Slots :
    \/ /\ nreq < MaxDedupRequests
       /\ \/ \E url \in DedupUrls :
               createShortLink_Admit(s, "u1", url, FALSE, NoAlias)
          \/ createShortLink_Admit(s, "u2", UrlPlain, FALSE, NoAlias)
          \/ \E code \in RandomCodes :
               setLinkActiveAdmin(s, "admin", code, FALSE)
    \/ createShortLink_FindExisting(s)
    \/ generateUniqueShortCode(s)
    \/ createShortLink_Insert(s)

SpecDedup == Init /\ [][NextDedup]_vars

\* SpecFrame: one link, created, asked for again by its creator, resolved,
\* read through every read endpoint, deactivated, reactivated and deleted
NextFrame ==
  \E s \in Slots :
    \/ /\ nreq < MaxFrameRequests
       /\ \/ /\ store = {}
             /\ createShortLink_Admit(s, "u1", UrlPlain, TRUE, AliasAbc)
          \/ /\ store # {}
             /\ createShortLink_Admit(s, "u1", UrlPlain, FALSE, NoAlias)
          \/ redirectToOriginalUrl_Find(s, AliasAbc)
          \/ getLinkInfo(s, AliasAbc)
          \/ \E u \in Users : getLinkAnalytics(s, u, AliasAbc)
          \/ \E u \in Users : getUserLinks(s, u)
          \/ getLinkForDelay_Find(s, AliasAbc)
          \/ deleteLink(s, "u1", AliasAbc)
          \/ \E b \in BOOLEAN : setLinkActiveAdmin(s, "admin", AliasAbc, b)
    \/ CreateSteps(s)
    \/ redirectToOriginalUrl_Save(s)
    \/ getLinkForDelay_Respond(s)

SpecFrame == Init /\ [][NextFrame]_vars

\* SpecRead: one link read through the public read endpoints while it is
\* deactivated and while it expires
NextRead ==
  \/ \E s \in Slots :
       \/ /\ nreq < MaxReadRequests
          /\ \/ /\ store = {}
                /\ createShortLink_Admit(s, "u1", UrlPlain, TRUE, AliasAbc)
             \/ getLinkInfo(s, AliasAbc)
             \/ getLinkForDelay_Find(s, AliasAbc)
             \/ \E b \in BOOLEAN : setLinkActiveAdmin(s, "admin", AliasAbc, b)
       \/ createShortLink_CheckAlias(s)
       \/ createShortLink_FindExisting(s)
       \/ createShortLink_Insert(s)
       \/ getLinkForDelay_Respond(s)
  \/ \E d \in {1, FIVE_DAYS_MS} : Tick(d)
  \/ TtlExpire

SpecRead == Init /\ [][NextRead]_vars

(***************************************************************************)
(* Properties                                                              *)
(***************************************************************************)
Done(s, op) == req[s].op = op /\ req[s].pc = "done"

Concurrent(s, t) == s \in req[t].overlap \/ t \in req[s].overlap

AliasTaken(s) == req[s].status = 400 /\ req[s].error = "Custom alias already exists"

\* C1: once no resolution of a link is in flight, the link's clickCount equals
\* the number of resolutions that returned its destination: no increment is lost.
C1_NoLostClicks ==
  \A l \in store :
    (\A s \in Slots : ~(req[s].pc = "save" /\ \E m \in req[s].link : m._id = l._id))
      => l.clicks = redirects[l._id]

\* C2: of two overlapping create requests with the same well-formed, unreserved
\* custom alias, from different creators or for different URLs, neither of
\* them answered from an existing link: when one ends with a created link,
\* the other ends with 'Custom alias already exists'.
C2_AliasRaceOneWinsOtherTaken ==
  \A s, t \in Slots :
    ( /\ s # t
      /\ Done(s, "create") /\ Done(t, "create")
      /\ Concurrent(s, t)
      /\ req[s].hasAlias /\ req[t].hasAlias
      /\ req[s].customAlias = req[t].customAlias
      /\ req[s].userId # req[t].userId \/ req[s].originalUrl # req[t].originalUrl
      /\ req[s].admitted /\ req[t].admitted
      /\ ~isReserved(req[s].customAlias)
      /\ req[s].status = 201 /\ req[t].status # 200 )
    => AliasTaken(t)

\* C3: no step lowers the clickCount of a stored link.
C3_ClicksNeverDecrease ==
  [][ \A l \in store : \A m \in store' : m._id = l._id => m.clicks >= l.clicks ]_vars

\* C4: the store never holds two documents with the same shortCode.
C4_UniqueShortCode ==
  \A l, m \in store : l.shortCode = m.shortCode => l = m

\* C4 witness: the unique index has rejected an insert of a code that is stored.
C4_Witness ==
  \E s \in Slots :
    /\ Done(s, "create")
    /\ req[s].error = "E11000 duplicate key error"
    /\ \E l \in store : l.shortCode = req[s].shortCode

\* C5: a resolution that found the code's document deactivated, or with
\* expiresAt before the time of the read, ends with 404 or 410 and no redirect.
C5_NoRedirectWhenInactiveOrExpired ==
  \A s \in Slots :
    ( /\ Done(s, "resolve")
      /\ \E l \in req[s].seen : ~l.isActive \/ l.expiresAt < req[s].startedAt )
    => /\ req[s].status \in {404, 410}
       /\ req[s].resUrl = <<>>

\* C5 witness: a resolution of a stored, deactivated link has ended.
C5_Witness ==
  \E s \in Slots :
    /\ Done(s, "resolve")
    /\ \E l \in req[s].seen : ~l.isActive
    /\ req[s].status = 404

\* C6: a resolution that found the code's document active-flagged with
\* expiresAt in the past ends with 410 'This short URL has expired'.
C6_ExpiredResolvesAsExpired ==
  \A s \in Slots :
    ( /\ Done(s, "resolve")
      /\ \E l \in req[s].seen : l.isActive /\ l.expiresAt < req[s].startedAt )
    => /\ req[s].status = 410
       /\ req[s].error = "This short URL has expired"

\* C6 witness: an expired link, not yet removed by any sweep, was resolved.
C6_Witness ==
  \E s \in Slots :
    /\ Done(s, "resolve")
    /\ \E l \in req[s].seen : l.isActive /\ l.expiresAt < req[s].startedAt
    /\ req[s].seen \subseteq store
    /\ ~swept

\* C7: a create request that returns a link, arriving when its caller already
\* has a stored link for the same normalized URL, returns that link's code
\* and inserts nothing.
C7_SameUrlSameCode ==
  \A s \in Slots :
    ( /\ Done(s, "create")
      /\ req[s].status \in {200, 201}
      /\ \E l \in store : l._id \in req[s].dupAtStart )
    => /\ req[s].status = 200
       /\ req[s].createdId = 0
       /\ \E l \in store : l._id \in req[s].dupAtStart /\ l.shortCode = req[s].resShortCode

\* the links userId created with createdAt in the quota window ending at `at`
CreatedInWindow(userId, at) ==
  { i \in DOMAIN created :
      /\ created[i].createdBy = userId
      /\ created[i].createdAt > at - QuotaWindowMs }

\* a createShortLink request of userId arrives in slot s in this step
CreateArrives(s, userId) ==
  /\ Accepts(s)
  /\ nreq' = nreq + 1
  /\ req'[s].op = "create"
  /\ req'[s].userId = userId

\* C8: a create request of a caller who created 5 links within the last
\* 60 minutes is rejected with 429 and writes nothing.
C8_SixthCreateRejected ==
  [][ \A s \in Slots, u \in Users :
        ( /\ CreateArrives(s, u)
          /\ Cardinality(CreatedInWindow(u, now)) >= 5 )
        => /\ req'[s].status = 429
           /\ store' = store ]_vars

\* C9: a create request of a caller whose last quota rejection is 60 minutes
\* or more ago, and who has created no link since, passes the quota guard.
C9_AdmittedAfterWindow ==
  [][ \A s \in Slots, u \in Users :
        ( /\ CreateArrives(s, u)
          /\ rejectedAt[u] >= 0
          /\ now - rejectedAt[u] >= 60 * 60 * 1000
          /\ \A i \in DOMAIN created :
               created[i].createdBy = u => created[i].createdAt <= rejectedAt[u] )
        => req'[s].admitted ]_vars

\* C9 witness: a request was admitted an hour or more after a rejection.
C9_Witness ==
  \E s \in Slots :
    /\ req[s].op = "create"
    /\ req[s].admitted
    /\ rejectedAt[req[s].userId] >= 0
    /\ req[s].startedAt - rejectedAt[req[s].userId] >= 60 * 60 * 1000

\* C10: no stored link has a code that is, ignoring case, a reserved word.
C10_NoReservedCodeStored ==
  \A l \in store : toLowerCase(l.shortCode) \notin ReservedWords

\* a deleteLink request of an identified caller for a code stored at its
\* arrival, none of whose documents the caller created
NonOwnerDelete(s) ==
  /\ Done(s, "delete")
  /\ req[s].userId # NoUser
  /\ req[s].seen # {}
  /\ \A l \in req[s].seen : l.createdBy # req[s].userId

ClickWriteFails(s) ==
  /\ req[s].pc = "save"
  /\ req'[s].pc = "done"
  /\ \A l \in req[s].link : ~ \E m \in store : m._id = l._id

C13_GenerationTerminates ==
  \A s \in Slots : (req[s].pc = "exists") ~> (req[s].pc # "exists")

\* the request that arrives in slot s in this step
Arrives(s, op) ==
  /\ Accepts(s)
  /\ nreq' = nreq + 1
  /\ req'[s].op = op

\* C14 (as claimed): once the active flag of a stored link is false, no step
\* makes it true again.
C14_DeactivatedIsTerminal ==
  [][ \A l \in store : \A m \in store' :
        (m._id = l._id /\ ~l.isActive) => ~m.isActive ]_vars

\* C14 (amended): the active flag of a stored link goes from false to true
\* only by a setLinkActiveAdmin request of a caller with the admin role.
C14_OnlyAdminReactivates ==
  [][ \A l \in store : \A m \in store' :
        (m._id = l._id /\ ~l.isActive /\ m.isActive)
          => \E s \in Slots :
               /\ Arrives(s, "setActive")
               /\ req'[s].role = "admin"
               /\ req'[s].status = 200
               /\ req'[s].link = {l} ]_vars

\* C14 witness: an admin request has reactivated a deactivated link, which a
\* resolution then found
C14_Witness ==
  \E s, t \in Slots :
    /\ Done(s, "setActive") /\ req[s].status = 200
    /\ \E l \in req[s].link : ~l.isActive /\ \E m \in store : m._id = l._id /\ m.isActive
    /\ Done(t, "resolve") /\ req[t].status = 302
    /\ \E l \in req[s].link, m \in req[t].seen : m._id = l._id /\ m.isActive

\* u is an absolute URL with scheme http or https that the URL parser accepts
IsAbsoluteHttpUrl(u) == HasHttpScheme(u) /\ ParseUrl(u).ok

\* C15: every stored originalUrl is an absolute http(s) URL, and an admitted
\* create request whose URL does not normalize to one ends with an error and
\* inserts nothing.
C15_OnlyValidUrlsAccepted ==
  /\ \A l \in store : IsAbsoluteHttpUrl(l.originalUrl)
  /\ \A s \in Slots :
       ( /\ Done(s, "create")
         /\ req[s].admitted
         /\ ~IsAbsoluteHttpUrl(req[s].normalizedUrl) )
       => /\ req[s].status \notin {200, 201}
          /\ req[s].createdId = 0

\* the create request of slot s takes its lookup step for an existing link
LookupStep(s) ==
  /\ req[s].op = "create"
  /\ req[s].pc = "existing"
  /\ req'[s].pc # "existing"

\* the caller's stored links that the lookup pattern of slot s matches
LookupMatches(s) ==
  { l \in store : /\ l.createdBy = req[s].userId
                  /\ RegexValid(req[s].normalizedUrl)
                  /\ RegexMatchesWhole(req[s].normalizedUrl, l.originalUrl) }

\* C16 (as claimed): a create request that returns an existing record returns
\* an active one.
C16_ReturnsExistingOnlyWhenActive ==
  [][ \A s \in Slots :
        (LookupStep(s) /\ req'[s].status = 200)
          => \E l \in store : l.shortCode = req'[s].resShortCode /\ l.isActive ]_vars

\* C16 (amended): a create request whose lookup matches only deactivated
\* records of the caller returns the code of one of them with status 200 and
\* inserts nothing.
C16_ReturnsExistingEvenWhenInactive ==
  [][ \A s \in Slots :
        ( /\ LookupStep(s)
          /\ LookupMatches(s) # {}
          /\ \A l \in LookupMatches(s) : ~l.isActive )
          => /\ req'[s].status = 200
             /\ \E l \in LookupMatches(s) : req'[s].resShortCode = l.shortCode
             /\ store' = store ]_vars

\* C16 witness: a create request was answered with the code of a deactivated link.
C16_Witness ==
  \E s \in Slots :
    /\ Done(s, "create")
    /\ req[s].status = 200
    /\ \E l \in store : /\ l.shortCode = req[s].resShortCode
                        /\ l.createdBy = req[s].userId
                        /\ l.originalUrl = req[s].normalizedUrl
                        /\ ~l.isActive

\* C17: a create request is never answered with an existing link whose URL
\* differs from the request's normalized URL in letter case only (the scheme
\* and the host are lower case after normalization, so such a difference is
\* in the path or the query).
C17_CaseOfPathDistinguishes ==
  [][ \A s \in Slots :
        (LookupStep(s) /\ req'[s].status = 200)
          => ~ ( /\ req'[s].resUrl # req[s].normalizedUrl
                 /\ toLowerCase(req'[s].resUrl) = toLowerCase(req[s].normalizedUrl) ) ]_vars

\* the create request of slot s is answered in this step with a link
CreateAnswered(s) ==
  /\ req[s].op = "create"
  /\ req[s].pc # "done"
  /\ req'[s].pc = "done"
  /\ req'[s].status \in {200, 201}

\* C18: duplicate collapsing is scoped to the creator: the code a create
\* request is answered with, new or existing, is the code of exactly one
\* stored record, and that record was created by the caller; a caller is
\* never answered with the code of another creator's record.
C18_DedupScopedToCreator ==
  [][ \A s \in Slots :
        CreateAnswered(s)
          => /\ \E l \in store' : /\ l.shortCode = req'[s].resShortCode
                                  /\ l.createdBy = req[s].userId
             /\ \A l \in store' : l.shortCode = req'[s].resShortCode
                                    => l.createdBy = req[s].userId ]_vars

\* two creators hold a record each for the same normalized URL, under
\* distinct codes, and each was answered 201 with the code of their own
C18_Witness ==
  \E s, t \in Slots :
    /\ Done(s, "create") /\ Done(t, "create")
    /\ req[s].userId # req[t].userId
    /\ req[s].normalizedUrl = req[t].normalizedUrl
    /\ req[s].status = 201 /\ req[t].status = 201
    /\ req[s].resShortCode # req[t].resShortCode
    /\ \E l, m \in store :
         /\ l.shortCode = req[s].resShortCode /\ l.createdBy = req[s].userId
         /\ m.shortCode = req[t].resShortCode /\ m.createdBy = req[t].userId
         /\ l.originalUrl = m.originalUrl

\* the custom alias of a create request fails validateAlias: it is not 3 to
\* 30 characters of [a-zA-Z0-9-_], or it is a reserved word in any letter case
AliasInvalid(alias) ==
  \/ Len(alias) < 3
  \/ Len(alias) > 30
  \/ \E i \in 1..Len(alias) : alias[i] \notin AliasChars
  \/ toLowerCase(alias) \in ReservedWords

\* C19: alias validation runs before any store write: the step in which a
\* create request with a reserved or badly formatted custom alias arrives
\* ends the request with an error and leaves the store as it was; the request
\* has inserted no record.
C19_AliasValidatedBeforeWrite ==
  [][ \A s \in Slots :
        ( /\ Arrives(s, "create")
          /\ req'[s].hasAlias
          /\ AliasInvalid(req'[s].customAlias) )
          => /\ req'[s].pc = "done"
             /\ req'[s].status \in {400, 401, 429}
             /\ req'[s].createdId = 0
             /\ store' = store
             /\ nextId' = nextId ]_vars

\* with a link stored, a request with a reserved or a badly formatted alias
\* has been refused with 400, and the store holds no record under either alias
C19_Witness ==
  /\ store # {}
  /\ \E s \in Slots :
       /\ Done(s, "create")
       /\ req[s].hasAlias
       /\ req[s].customAlias \in {AliasReserved, AliasBad}
       /\ req[s].status = 400
       /\ req[s].createdId = 0
  /\ \A l \in store : l.shortCode \notin {AliasReserved, AliasBad}

\* the stored link l is removed, or goes from active to inactive, in this step
RemovedOrDeactivated(l) ==
  \/ ~ \E m \in store' : m._id = l._id
  \/ /\ l.isActive
     /\ \E m \in store' : m._id = l._id /\ ~m.isActive

\* C20: a step that removes or deactivates a stored link is the arrival of a
\* delete request of the link's creator or of a delete or deactivate request
\* of a caller with the admin role; the arrival of a delete request of any
\* other identified caller leaves the store unchanged.
C20_OnlyCreatorOrAdminRemoves ==
  [][ /\ \A l \in store :
           RemovedOrDeactivated(l)
             => \E s \in Slots :
                  \/ /\ Arrives(s, "delete")
                     /\ req'[s].userId = l.createdBy
                     /\ req'[s].param = l.shortCode
                  \/ /\ Arrives(s, "deleteAdmin") \/ Arrives(s, "setActive")
                     /\ req'[s].role = "admin"
                     /\ req'[s].param = l.shortCode
      /\ \A s \in Slots :
           ( /\ Arrives(s, "delete")
             /\ req'[s].userId # NoUser
             /\ \A l \in store : l.createdBy # req'[s].userId )
             => store' = store ]_vars

\* a delete request of another caller for a stored link was refused, and
\* then the delete request of its creator removed the link
C20_Witness ==
  \E s, t \in Slots :
    /\ NonOwnerDelete(s)
    /\ Done(t, "delete")
    /\ req[t].status = 200
    /\ req[t].link # {}
    /\ req[t].link = req[s].seen
    /\ \A l \in req[t].link : l.createdBy = req[t].userId
    /\ \A l \in req[t].link : ~ \E m \in store : m._id = l._id

\* the clicks of a stored link differ before and after this step
ClicksChange ==
  \E l \in store : \E m \in store' : m._id = l._id /\ m.clicks # l.clicks

\* C21: clicks is changed only by the resolution path: a step that changes
\* the clicks of a stored link is the save of a resolve request; create
\* (collapsed onto an existing link or not), info, delay page, analytics,
\* listing, delete and the admin status change leave every clicks as it was.
C21_ClicksOnlyByResolution ==
  [][ ClicksChange
        => \E s \in Slots : /\ req[s].op = "resolve"
                            /\ req[s].pc = "save"
                            /\ req'[s].pc = "done"
                            /\ req'[s].status = 302 ]_vars

\* a link that has been resolved (clicks above 0) is stored, a read endpoint
\* has returned it with these clicks, and a status change, a listing or a
\* collapsed create has been answered as well
C21_Witness ==
  /\ \E l \in store : l.clicks > 0
  /\ \E s, t \in Slots :
       /\ s # t
       /\ Done(s, "info") \/ Done(s, "delay") \/ Done(s, "analytics")
       /\ req[s].status = 200
       /\ \E l \in req[s].link : l.clicks > 0
       /\ \/ Done(t, "setActive")
          \/ Done(t, "list")
          \/ Done(t, "create") /\ req[t].status = 200
       /\ req[t].status = 200

\* C22: every stored link has a code of 3 to 32 characters, each a letter, a
\* digit, '-' or '_'.
C22_StoredCodeWellFormed ==
  \A l \in store :
    /\ Len(l.shortCode) >= 3
    /\ Len(l.shortCode) <= 32
    /\ \A i \in 1..Len(l.shortCode) :
         l.shortCode[i] \in UpperSet \cup LowerSet \cup DigitSet \cup {"-", "_"}

\* the record the resolve request of slot s read is no longer stored
ReadRecordRemoved(s) ==
  /\ req[s].op = "resolve"
  /\ req[s].link # {}
  /\ \A l \in req[s].link : ~ \E m \in store : m._id = l._id

\* C23: a resolution whose record is removed while it runs, by the expiry
\* sweep or by a delete, ends with the destination (302) or with a not-found
\* or expired outcome (404, 410), never with a server error, and does not
\* insert the removed record again.
C23_ResolveSurvivesRemoval ==
  [][ \A s \in Slots :
        ( /\ req[s].pc = "save"
          /\ req'[s].pc = "done"
          /\ ReadRecordRemoved(s) )
          => /\ req'[s].status \in {302, 404, 410}
             /\ store' = store ]_vars

\* C24: a create request without custom alias whose insert the unique index
\* rejects, because a concurrent request inserted the same generated code
\* first, is not answered with that rejection: it goes on to another code.
C24_CodeRaceLoserRetries ==
  \A s \in Slots :
    (Done(s, "create") /\ ~req[s].hasAlias)
      => ~ ( /\ req[s].status >= 500
             /\ req[s].error = "E11000 duplicate key error" )

\* C25 (as claimed): a create request with a custom alias that is answered
\* with a link is answered with the alias as shortCode.
C25_AliasAlwaysReturned ==
  [][ \A s \in Slots :
        (CreateAnswered(s) /\ req[s].hasAlias)
          => req'[s].resShortCode = req[s].customAlias ]_vars

\* C25 (amended): a create request with a custom alias that inserts a link
\* stores and returns the alias itself as shortCode; a request answered with
\* a shortCode other than its alias is one answered 200 with an existing link
\* of the caller.
C25_AliasUsedAsIsWhenCreated ==
  [][ \A s \in Slots :
        (CreateAnswered(s) /\ req[s].hasAlias)
          => IF req'[s].status = 201
               THEN /\ req'[s].resShortCode = req[s].customAlias
                    /\ \E l \in store' : /\ l._id = req'[s].createdId
                                         /\ l.shortCode = req[s].customAlias
               ELSE /\ req'[s].status = 200
                    /\ req'[s].createdId = 0
                    /\ \E l \in store : /\ l.shortCode = req'[s].resShortCode
                                        /\ l.createdBy = req[s].userId ]_vars

\* a request with a custom alias inserted a link, and the link is stored and
\* was returned under the alias as it was sent
C25_Witness ==
  \E s \in Slots :
    /\ Done(s, "create") /\ req[s].hasAlias
    /\ req[s].status = 201
    /\ req[s].resShortCode = req[s].customAlias
    /\ \E l \in store : /\ l._id = req[s].createdId
                        /\ l.shortCode = req[s].customAlias
                        /\ l.originalUrl = req[s].normalizedUrl

\* C26: originalUrl, shortCode, createdBy and createdAt of a stored link never
\* change: a link stored before and after a step, whichever operation the
\* step belongs to, has the same four values.
C26_IdentityFieldsImmutable ==
  [][ \A l \in store : \A m \in store' :
        m._id = l._id
          => /\ m.originalUrl = l.originalUrl
             /\ m.shortCode = l.shortCode
             /\ m.createdBy = l.createdBy
             /\ m.createdAt = l.createdAt ]_vars

\* the link created as 'abc' by u1 has since been resolved and deactivated,
\* and is stored with the URL, code and creator it was created with
C26_Witness ==
  \E l \in store :
    /\ l.clicks > 0
    /\ ~l.isActive
    /\ l.shortCode = AliasAbc
    /\ l.createdBy = "u1"
    /\ l.originalUrl = normalizeUrl(UrlPlain)
    /\ \E s \in Slots : Done(s, "setActive") /\ req[s].status = 200

\* C27: no two stored links have the same creator and the same originalUrl.
C27_OneLinkPerCreatorAndUrl ==
  \A l, m \in store :
    (l.createdBy = m.createdBy /\ l.originalUrl = m.originalUrl) => l = m

\* C28: no creator has more than 5 stored links whose createdAt lies within
\* the previous 60 minutes.
C28_AtMostFiveStoredPerHour ==
  \A u \in Users :
    Cardinality({ l \in store : /\ l.createdBy = u
                                /\ l.createdAt > now - 60 * 60 * 1000 }) <= 5

\* the info or delay request of slot s is answered in this step with a link
ReadAnswered(s) ==
  /\ \/ Arrives(s, "info")
     \/ Arrives(s, "delay")
     \/ req[s].pc = "metadata"
  /\ req'[s].pc = "done"
  /\ req'[s].status = 200

\* C29: an info or delay request is never answered with the URL of a stored
\* link that is deactivated or whose expiresAt is in the past.
C29_ReadsHideInactiveAndExpired ==
  [][ \A s \in Slots :
        ReadAnswered(s)
          => \A l \in store :
               (l.shortCode = req'[s].resShortCode /\ l.originalUrl = req'[s].resUrl)
                 => l.isActive /\ ~(l.expiresAt < now) ]_vars

\* the resolve request of slot s is answered in this step
ResolveAnswered(s) ==
  /\ Arrives(s, "resolve") \/ (req[s].op = "resolve" /\ req[s].pc = "save")
  /\ req'[s].pc = "done"

\* C30: the step that answers a resolution with 404 or 410 leaves the store
\* unchanged; and a resolve request arriving for a code whose stored link is
\* deactivated or past its expiresAt writes nothing and is left with no
\* increment to save.
C30_FailedResolveWritesNothing ==
  [][ \A s \in Slots :
        /\ (ResolveAnswered(s) /\ req'[s].status \in {404, 410})
             => store' = store
        /\ ( /\ Arrives(s, "resolve")
             /\ \A l \in ByShortCode(req'[s].param) : ~l.isActive \/ l.expiresAt < now )
             => /\ store' = store
                /\ req'[s].pc = "done"
                /\ req'[s].status \in {404, 410} ]_vars

\* a link that was resolved before it expired has since been asked for
\* again, the request was answered 410, and the link is stored with the
\* clicks it had when that request read it
C30_Witness ==
  \E s \in Slots :
    /\ Done(s, "resolve")
    /\ req[s].status = 410
    /\ req[s].link # {}
    /\ req[s].link \subseteq store
    /\ \A l \in req[s].link : l.clicks > 0

====
